---- MODULE Spec2Model ----
(***************************************************************************)
(* Model of aamva2011.py: License.from_string and the parsing pipeline it  *)
(* drives (track split, the three track grammars, name normalisation, the  *)
(* Ohio variant).  Python strings are sequences of one-character strings;  *)
(* a dict is a function from key strings to such sequences; an exception   *)
(* is a value carrying the name of its class.                              *)
(***************************************************************************)
EXTENDS Integers, Sequences, FiniteSets, TLC

VARIABLES input, result, heap, returned, subclasses

vars == <<input, result, heap, returned, subclasses>>

----------------------------------------------------------------------------
(* Characters *)

Digit == {"0", "1", "2", "3", "4", "5", "6", "7", "8", "9"}

Upper == {"A", "B", "C", "D", "E", "F", "G", "H", "I", "J", "K", "L", "M",
          "N", "O", "P", "Q", "R", "S", "T", "U", "V", "W", "X", "Y", "Z"}

\* str.isspace() characters that int() strips, among those the model writes
Whitespace == {" ", "\n", "\t"}

\* printable ASCII, code points 32..126, in order (the grave accent, 96, is
\* written as the atom "\x96")
Ascii ==
  <<" ", "!", "\"", "#", "$", "%", "&", "'", "(", ")", "*", "+", ",", "-",
    ".", "/", "0", "1", "2", "3", "4", "5", "6", "7", "8", "9", ":", ";",
    "<", "=", ">", "?", "@", "A", "B", "C", "D", "E", "F", "G", "H", "I",
    "J", "K", "L", "M", "N", "O", "P", "Q", "R", "S", "T", "U", "V", "W",
    "X", "Y", "Z", "[", "\\", "]", "^", "_", "\\x96", "a", "b", "c", "d", "e",
    "f", "g", "h", "i", "j", "k", "l", "m", "n", "o", "p", "q", "r", "s",
    "t", "u", "v", "w", "x", "y", "z", "{", "|", "}", "~">>

\* chr(n); a code point outside printable ASCII is the atom "\xNNN"
chr(n) == IF n \in 32..126 THEN Ascii[n - 31] ELSE "\\x" \o ToString(n)

\* the value of one decimal digit character
DigitVal(c) == CHOOSE v \in 0..9 : Ascii[v + 17] = c

----------------------------------------------------------------------------
(* Python string helpers *)

\* s[a:b] for 0 <= a <= b
Slice(s, a, b) ==
  LET hi == IF b < Len(s) THEN b ELSE Len(s)
  IN  IF a >= hi THEN <<>> ELSE SubSeq(s, a + 1, hi)

\* s[a:]
SliceFrom(s, a) == Slice(s, a, Len(s))

RECURSIVE rstrip(_, _)
rstrip(s, c) ==
  IF s # <<>> /\ s[Len(s)] = c THEN rstrip(SubSeq(s, 1, Len(s) - 1), c) ELSE s

RECURSIVE lstripSet(_, _)
lstripSet(s, cs) ==
  IF s # <<>> /\ s[1] \in cs THEN lstripSet(Tail(s), cs) ELSE s

RECURSIVE rstripSet(_, _)
rstripSet(s, cs) ==
  IF s # <<>> /\ s[Len(s)] \in cs
  THEN rstripSet(SubSeq(s, 1, Len(s) - 1), cs) ELSE s

\* s.split(c): the list of the parts between the occurrences of c
RECURSIVE split(_, _)
split(s, c) ==
  IF \A i \in 1..Len(s) : s[i] # c THEN <<s>>
  ELSE LET i == CHOOSE i \in 1..Len(s) :
                  s[i] = c /\ \A j \in 1..(i - 1) : s[j] # c
       IN  <<SubSeq(s, 1, i - 1)>> \o split(SubSeq(s, i + 1, Len(s)), c)

RECURSIVE DecVal(_)
DecVal(s) == IF s = <<>> THEN 0
             ELSE 10 * DecVal(SubSeq(s, 1, Len(s) - 1)) + DigitVal(s[Len(s)])

\* int(s): surrounding whitespace stripped, an optional sign, then decimal
\* digits; anything else raises ValueError.  (Digit-group underscores need
\* three characters and do not arise for the two-character slices passed.)
strip(s) == rstripSet(lstripSet(s, Whitespace), Whitespace)

Signed(sign, body) ==
  IF body = <<>> \/ \E i \in 1..Len(body) : body[i] \notin Digit
  THEN [ok |-> FALSE, val |-> 0]
  ELSE [ok |-> TRUE,
        val |-> IF sign = "-" THEN 0 - DecVal(body) ELSE DecVal(body)]

IntOf(t) ==
  IF t # <<>> /\ t[1] \in {"+", "-"} THEN Signed(t[1], Tail(t))
  ELSE Signed("+", t)

int(s) == IntOf(strip(s))

----------------------------------------------------------------------------
(* Regular expressions: a pattern is a sequence of items, each a greedy     *)
(* bounded repetition of one character class; consecutive items that carry  *)
(* the same group name make up that named group.  The match re.match()      *)
(* returns is the one its backtracking finds first: every item in turn      *)
(* keeps the longest run that still lets the rest of the pattern match.     *)
(* It is computed from the positions the items can reach (Reach) and those  *)
(* the rest of the pattern matches from (Alive).                            *)

\* class set (or its complement when neg), lo..hi repetitions, hi ignored
\* when star
Item(neg, set, lo, hi, star, group) ==
  [neg |-> neg, set |-> set, lo |-> lo, hi |-> hi, star |-> star,
   group |-> group]

Lit(c)            == Item(FALSE, {c}, 1, 1, FALSE, "")
Opt(c)            == Item(FALSE, {c}, 0, 1, FALSE, "")
DotStar           == Item(TRUE, {"\n"}, 0, 0, TRUE, "")
Grp(g, set, lo, hi)    == Item(FALSE, set, lo, hi, FALSE, g)
GrpNot(g, set, lo, hi) == Item(TRUE, set, lo, hi, FALSE, g)
GrpNotStar(g, set)     == Item(TRUE, set, 0, 0, TRUE, g)

Accepts(item, c) == (c \in item.set) # item.neg

\* the longest run of accepted characters from pos, at most n of them: the
\* first k at which the run stops
RunLen(item, s, pos, n) ==
  CHOOSE k \in 0..n :
    /\ k = n \/ pos + k > Len(s) \/ ~Accepts(item, s[pos + k])
    /\ \A j \in 0..(k - 1) : pos + j <= Len(s) /\ Accepts(item, s[pos + j])

\* the longest run the item can take from position p
Run(item, s, p) == RunLen(item, s, p, IF item.star THEN Len(s) ELSE item.hi)

\* the numbers of characters the item can take from position p: its longest
\* run, and what is left of it as it gives characters back
Takes(item, s, p) == item.lo..Run(item, s, p)

\* ps[i]: where the i-th item starts when every item keeps its longest run,
\* which is the match found first if it is one; <<>> if an item finds too
\* few characters
RECURSIVE Eager(_, _, _)
Eager(re, s, ps) ==
  IF Len(ps) > Len(re) THEN ps
  ELSE IF Run(re[Len(ps)], s, ps[Len(ps)]) < re[Len(ps)].lo THEN <<>>
  ELSE Eager(re, s,
             Append(ps, ps[Len(ps)] + Run(re[Len(ps)], s, ps[Len(ps)])))

\* where the next item can start, the item starting at a position of P
After(item, s, P) == UNION {{p + n : n \in Takes(item, s, p)} : p \in P}

\* rs[i]: the positions the items before the i-th can lead to, from the
\* start of s; the last entry is where a match of the whole pattern can end
RECURSIVE Reach(_, _, _)
Reach(re, s, rs) ==
  IF Len(rs) > Len(re) THEN rs
  ELSE Reach(re, s, Append(rs, After(re[Len(rs)], s, rs[Len(rs)])))

\* the positions of P from which the item can take a number of characters
\* that leaves the rest of the pattern at a position of B
Before(item, s, P, B) ==
  {p \in P : \E n \in Takes(item, s, p) : p + n \in B}

\* bs, for the last Len(bs) - 1 items: the positions of rs from which these
\* items match; extended to all the items
RECURSIVE Alive(_, _, _, _)
Alive(re, s, rs, bs) ==
  IF Len(bs) > Len(re) THEN bs
  ELSE Alive(re, s, rs,
             <<Before(re[Len(re) + 1 - Len(bs)], s,
                      rs[Len(re) + 1 - Len(bs)], bs[1])>> \o bs)

\* what a greedy item keeps after backtracking: the longest run from p that
\* lets the rest of the pattern match
Longest(item, s, p, B) ==
  CHOOSE n \in Takes(item, s, p) :
    /\ p + n \in B
    /\ \A m \in Takes(item, s, p) : m > n => p + m \notin B

\* ps[i]: where the i-th item starts in the match that backtracking finds,
\* each item in turn keeping the longest run that lets the rest match
RECURSIVE Greedy(_, _, _, _)
Greedy(re, s, bs, ps) ==
  IF Len(ps) > Len(re) THEN ps
  ELSE Greedy(re, s, bs,
              Append(ps, ps[Len(ps)]
                           + Longest(re[Len(ps)], s, ps[Len(ps)],
                                     bs[Len(ps) + 1])))

GroupNames(re) == {re[i].group : i \in 1..Len(re)} \ {""}

\* the first and the last of the consecutive items that make up group g
GroupStart(re, g) ==
  CHOOSE i \in 1..Len(re) :
    re[i].group = g /\ \A j \in 1..(i - 1) : re[j].group # g

GroupEnd(re, g) ==
  CHOOSE i \in 1..Len(re) :
    re[i].group = g /\ \A j \in (i + 1)..Len(re) : re[j].group # g

\* groupdict(): the text of each named group, item i having matched from
\* ps[i] up to ps[i + 1]
groupdict(re, s, ps) ==
  [g \in GroupNames(re) |->
     SubSeq(s, ps[GroupStart(re, g)], ps[GroupEnd(re, g) + 1] - 1)]

\* a match object: None (ok = FALSE) when no position is reached past the
\* last item, else groups is its groupdict()
MatchObject(re, s, rs) ==
  IF rs[Len(re) + 1] = {} THEN [ok |-> FALSE, groups |-> [g \in {} |-> <<>>]]
  ELSE [ok |-> TRUE,
        groups |-> groupdict(re, s,
                             Greedy(re, s,
                                    Alive(re, s, rs, <<rs[Len(re) + 1]>>),
                                    <<1>>))]

\* the match object of the match ps where no item gave anything back, else
\* of the match that backtracking finds
MatchFrom(re, s, ps) ==
  IF ps # <<>> THEN [ok |-> TRUE, groups |-> groupdict(re, s, ps)]
  ELSE MatchObject(re, s, Reach(re, s, <<{1}>>))

\* re.match(s)
match(re, s) == MatchFrom(re, s, Eager(re, s, <<1>>))

----------------------------------------------------------------------------
(* The grammars *)

AlNumSp == Digit \cup Upper \cup {" "}

\* a split that lets the third track end without its '?'
_track_re_open_end ==
  << GrpNotStar("track1", {"?"}), Grp("track1", {"?"}, 1, 1),
     GrpNotStar("track2", {"?"}), Grp("track2", {"?"}, 1, 1),
     GrpNotStar("track3", {"?"}), Grp("track3", {"?"}, 0, 1) >>

_track_re ==
  << GrpNotStar("track1", {"?"}), Grp("track1", {"?"}, 1, 1),
     GrpNotStar("track2", {"?"}), Grp("track2", {"?"}, 1, 1),
     GrpNotStar("track3", {"?"}), Grp("track3", {"?"}, 1, 1) >>

_track1_std ==
  << Lit("%"), Grp("state", Upper, 2, 2),
     GrpNot("city", {"^"}, 0, 13), Opt("^"),
     GrpNot("name", {"^"}, 0, 35), Opt("^"),
     GrpNotStar("address", {"^", "?"}), Opt("^"),
     Lit("?"), DotStar >>

_track2_std ==
  << Lit(";"), Grp("iin", {"6"}, 1, 1), Grp("iin", Digit, 5, 5),
     GrpNot("dlid", {"="}, 0, 13), Opt("="),
     Grp("expiration", Digit, 4, 4),
     Grp("birthdate", Digit, 8, 8),
     GrpNot("dlid_over", {"="}, 0, 5),
     Lit("?"), DotStar >>

_track3_std ==
  << Lit("#"), Grp("cds_version", Digit, 1, 1),
     Grp("jurisdiction_version", Digit, 1, 1),
     Grp("postal_code", AlNumSp, 11, 11),
     Grp("class", AlNumSp, 2, 2),
     Grp("restrictions", AlNumSp, 10, 10),
     Grp("endorsements", AlNumSp, 4, 4),
     Grp("sex", {"1", "2"}, 1, 1),
     Grp("height", Digit \cup {" "}, 3, 3),
     Grp("weight", Digit \cup {" "}, 3, 3),
     Grp("hair_color", Upper \cup {" "}, 3, 3),
     Grp("eye_color", Upper \cup {" "}, 3, 3),
     GrpNot("discretionary", {"\n"}, 37, 37),
     Lit("?"), DotStar >>

----------------------------------------------------------------------------
(* Values, exceptions and objects *)

EmptyDict == [k \in {} |-> <<>>]

\* d.update(e)
update(d, e) == e @@ d

\* del d[k]
del(d, k) == [x \in (DOMAIN d) \ {k} |-> d[x]]

\* a raised exception: its class, the statement that raised it, its argument
Raise(exc, stage, arg) ==
  [exc |-> exc, stage |-> stage, arg |-> arg,
   cls |-> "", attrs |-> EmptyDict, values |-> 0]

\* a constructed instance of cls: the attributes populate_self sets, and the
\* address of the dict bound to self.values
Object(cls, attrs, addr) ==
  [exc |-> "", stage |-> "", arg |-> <<>>,
   cls |-> cls, attrs |-> attrs, values |-> addr]

\* one dict object shared by every call, as a class-level `values = {}` is
Alloc_shared(h) == 1

\* `values = {}`: a new dict object, at an address no object has
Alloc(h) == Len(h) + 1

\* the heap with dict d at address a
Store(h, a, d) == IF a = Len(h) + 1 THEN Append(h, d) ELSE [h EXCEPT ![a] = d]

----------------------------------------------------------------------------
(* class License *)

\* the classes that derive from License, in __subclasses__() order, each with
\* the class attributes from_string probes
License_subclasses ==
  << [name |-> "License_OH", statelist |-> << <<"O", "H">> >>] >>

parse_string(string) == Raise("TypeError", "parse_string", <<>>)

\* split_tracks: the groupdict() of _track_re, or ParseError
split_tracks(string) == match(_track_re, string)

\* `l, f, m = parts`, the update and the del
unpack_name(values, parts) ==
  IF Len(parts) # 3 THEN [exc |-> "ValueError", values |-> values]
  ELSE [exc |-> "",
        values |-> del(update(values, [first_name  |-> parts[2],
                                       middle_name |-> parts[3],
                                       last_name   |-> parts[1]]),
                       "name")]

License_normalize(values) ==
  unpack_name(values, split(rstrip(values["name"], "$"), "$"))

\* the letter pair taken from ordinals that count from 0
OH_assign_from_zero(values, c1, c2) ==
  IF ~c1.ok \/ ~c2.ok THEN [exc |-> "ValueError", values |-> values]
  ELSE [exc |-> "",
        values |-> [values EXCEPT
                      !["dlid"] = <<chr(65 + c1.val), chr(65 + c2.val)>>
                                    \o SliceFrom(values["dlid"], 4)]]

\* the assignment of the letter pair, c1 and c2 being the two int() results
OH_assign(values, c1, c2) ==
  IF ~c1.ok \/ ~c2.ok THEN [exc |-> "ValueError", values |-> values]
  ELSE [exc |-> "",
        values |-> [values EXCEPT
                      !["dlid"] = <<chr(64 + c1.val), chr(64 + c2.val)>>
                                    \o SliceFrom(values["dlid"], 4)]]

\* License_OH.normalize after the call of super, which returned base
OH_after_super(base) ==
  IF base.exc # "" THEN base
  ELSE OH_assign(base.values, int(Slice(base.values["dlid"], 0, 2)),
                 int(Slice(base.values["dlid"], 2, 4)))

License_OH_normalize(values) == OH_after_super(License_normalize(values))

\* the Ohio normalizer run for every class
normalize_any_state(cls, values) == License_OH_normalize(values)

\* self.normalize, resolved on the class of self
normalize(cls, values) ==
  IF cls = "License_OH" THEN License_OH_normalize(values)
  ELSE License_normalize(values)

parse_discretionary(cls, values) == values

\* the end of parse_aamva: nz is what self.normalize returned or raised
populate(cls, h, addr, nz) ==
  IF nz.exc # ""
  THEN [ret  |-> Raise(nz.exc, "normalize", <<>>),
        heap |-> Store(h, addr, nz.values)]
  ELSE [ret  |-> Object(cls, parse_discretionary(cls, nz.values), addr),
        heap |-> Store(h, addr, parse_discretionary(cls, nz.values))]

\* the track matches tested from the last track to the first
extract_last_first(cls, h, addr, tracks, tm1, tm2, tm3) ==
  IF ~tm3.ok
  THEN [ret  |-> Raise("ParseError", "track 3", tracks["track3"]),
        heap |-> Store(h, addr, EmptyDict)]
  ELSE IF ~tm2.ok
  THEN [ret  |-> Raise("ParseError", "track 2", tracks["track2"]),
        heap |-> Store(h, addr, EmptyDict)]
  ELSE IF ~tm1.ok
  THEN [ret  |-> Raise("ParseError", "track 1", tracks["track1"]),
        heap |-> Store(h, addr, EmptyDict)]
  ELSE populate(cls, h, addr,
                normalize(cls, update(update(update(EmptyDict, tm1.groups),
                                             tm2.groups), tm3.groups)))

\* the three track matches of parse_aamva, in order, each updating values
extract(cls, h, addr, tracks, tm1, tm2, tm3) ==
  IF ~tm1.ok
  THEN [ret  |-> Raise("ParseError", "track 1", tracks["track1"]),
        heap |-> Store(h, addr, EmptyDict)]
  ELSE IF ~tm2.ok
  THEN [ret  |-> Raise("ParseError", "track 2", tracks["track2"]),
        heap |-> Store(h, addr, update(EmptyDict, tm1.groups))]
  ELSE IF ~tm3.ok
  THEN [ret  |-> Raise("ParseError", "track 3", tracks["track3"]),
        heap |-> Store(h, addr, update(update(EmptyDict, tm1.groups),
                                       tm2.groups))]
  ELSE populate(cls, h, addr,
                normalize(cls, update(update(update(EmptyDict, tm1.groups),
                                             tm2.groups), tm3.groups)))

\* parse_aamva from the return of split_tracks on
after_split(cls, string, h, addr, m) ==
  IF ~m.ok
  THEN [ret  |-> Raise("ParseError", "split", string),
        heap |-> Store(h, addr, EmptyDict)]
  ELSE extract(cls, h, addr, m.groups,
               match(_track1_std, m.groups["track1"]),
               match(_track2_std, m.groups["track2"]),
               match(_track3_std, m.groups["track3"]))

\* parse_aamva on a new instance of cls; ret is the instance or the exception
\* raised, heap the heap the call leaves
parse_aamva(cls, string, h) ==
  after_split(cls, string, h, Alloc(h), split_tracks(string))

\* cls(string)
License_init(cls, string, h) ==
  IF string[1] = "%" THEN parse_aamva(cls, string, h)
  ELSE [ret |-> parse_string(string), heap |-> h]

\* `x in lst`
In(x, lst) == \E i \in 1..Len(lst) : lst[i] = x

\* whether the body of the try block selects child; a missing class
\* attribute raises AttributeError, which the loop passes over
Selects(child, string) ==
  IF string[1] = "%"
  THEN "statelist" \in DOMAIN child /\ In(Slice(string, 1, 3), child.statelist)
  ELSE "string_match" \in DOMAIN child /\ match(child.string_match, string).ok

\* the class from_string constructs: the first subclass from the i-th on
\* that the loop selects, else cls.  (No statement of a constructor raises
\* AttributeError, so a selected subclass is never passed over.)
RECURSIVE selected(_, _, _, _)
selected(cls, subs, i, string) ==
  IF i > Len(subs) THEN cls
  ELSE IF Selects(subs[i], string) THEN subs[i].name
  ELSE selected(cls, subs, i + 1, string)

\* License.from_string(string)
from_string(subs, string, h) ==
  IF string = <<>>
  THEN [ret |-> Raise("IndexError", "from_string", <<>>), heap |-> h]
  ELSE License_init(selected("License", subs, 1, string), string, h)

----------------------------------------------------------------------------
(* The strings decoded: cards assembled from their fields, and short raw    *)
(* strings.                                                                 *)

\* bounds of the input sets
MaxRawLen == 4

MaxDlidPrefix == 4

MaxNameParts == 4

MaxPad == 2

\* the number of calls of one session
MaxCalls == 3

SeqsUpTo(S, n) == UNION {[1..k -> S] : k \in 0..n}

Rep(c, n) == [i \in 1..n |-> c]

RECURSIVE Join(_, _)
Join(parts, c) ==
  IF parts = <<>> THEN <<>>
  ELSE IF Len(parts) = 1 THEN parts[1]
  ELSE parts[1] \o <<c>> \o Join(Tail(parts), c)

OH == <<"O", "H">>

CA == <<"C", "A">>

City ==
  <<"C", "O", "L", "U", "M", "B", "U", "S">>

Address ==
  <<"1", " ", "M", "A", "I", "N", " ", "S", "T">>

FullName ==
  <<"D", "O", "E", "$", "J", "O", "H", "N", "$", "M", "I", "C", "H", "A",
    "E", "L", "$">>

Iin ==
  <<"6", "3", "6", "0", "2", "3">>

Expiration ==
  <<"1", "5", "1", "2">>

Birthdate ==
  <<"1", "9", "8", "0", "0", "1", "3", "1">>

ABCDE ==
  <<"A", "B", "C", "D", "E">>

OhioDlid ==
  <<"0", "1", "0", "2", "A", "B", "C", "D", "E">>

Track3Fixed ==
  <<"#", "1", "0", "4", "3", "2", "1", "5", " ", "1", "2", "3", "4", " ",
    "D", " ", "A", " ", "B", " ", " ", " ", " ", " ", " ", " ", "M", " ",
    " ", " ", "1", "5", "1", "1", "1", "8", "0", "B", "R", "O", "B", "L",
    "U">>

Discretionary ==
  <<"O", "H", "/", "d", "l", " ", "2", "0", "1", "1", ":", " ", "o", "r",
    "g", "a", "n", "-", "d", "o", "n", "o", "r", "=", "Y", ";", " ", "c",
    "l", "a", "s", "s", "(", "D", ")", " ", "#">>

Track1(state, city, sep, name, address) ==
  <<"%">> \o state \o city \o sep \o name \o sep \o address \o sep \o <<"?">>

Track2(dlid, eq, over) ==
  <<";">> \o Iin \o dlid \o eq \o Expiration \o Birthdate \o over \o <<"?">>

Track3(disc) == Track3Fixed \o disc \o <<"?">>

Card(state, sep, name, dlid, eq, over, disc) ==
  Track1(state, City, sep, name, Address) \o Track2(dlid, eq, over)
    \o Track3(disc)

BaseCard(state) ==
  Card(state, <<"^">>, FullName, OhioDlid, <<"=">>, <<>>, Discretionary)

States == {OH, CA}

RawAlphabet == {"%", "?", "O", "H"}

RawInputs == SeqsUpTo(RawAlphabet, MaxRawLen)

DlidAlphabet == {"0", "2", "7", "A"}

DlidInputs ==
  {Card(st, <<"^">>, FullName, p \o suf, <<"=">>, <<>>, Discretionary) :
     st \in States, p \in SeqsUpTo(DlidAlphabet, MaxDlidPrefix),
     suf \in {<<>>, ABCDE}}

NameParts == {<<>>, <<"D", "O", "E">>, <<"J">>}

NameInputs ==
  {Card(st, <<"^">>, Join(parts, "$") \o Rep("$", pad), OhioDlid, <<"=">>,
        <<>>, Discretionary) :
     st \in States, parts \in SeqsUpTo(NameParts, MaxNameParts),
     pad \in 0..MaxPad}

\* one character of a card replaced or removed
MutAlphabet == {"?", "^", "=", "$", "7", "a", " ", "\n"}

Subst(s, i, c) == [s EXCEPT ![i] = c]

Delete(s, i) == SubSeq(s, 1, i - 1) \o SubSeq(s, i + 1, Len(s))

MutatedInputs ==
  {Subst(BaseCard(OH), i, c) : i \in 1..Len(BaseCard(OH)), c \in MutAlphabet}
    \cup {Delete(BaseCard(OH), i) : i \in 1..Len(BaseCard(OH))}

\* further cards: a dlid run into the dates, an overflow field, signs and
\* blanks in the dlid, other discretionary contents, text after the third
\* track, fields that follow each other without their '^'
OtherInputs ==
  {Card(st, <<"^">>, FullName, d, eq, over, disc) \o tail :
     st \in States,
     d \in {OhioDlid, <<"2", "6", "2", "7">>, <<"-", "1", "+", "2", "X">>,
            <<" ", "1", "2", " ", "X">>, <<"2">>, <<"0", "1", "2">>},
     eq \in {<<>>, <<"=">>},
     over \in {<<>>, <<"1", "2">>},
     disc \in {Discretionary, Rep(" ", 37), Rep("$", 36)},
     tail \in {<<>>, <<"?", "%", "O", "H">>}}
    \cup {Card(st, <<>>, name, OhioDlid, <<"=">>, <<>>, Discretionary) :
            st \in States,
            name \in {FullName, <<"$", "J", "$", "M">>, <<"D", "$", "J">>}}

\* cards with a fault in any of the tracks: a lower-case state, an iin that
\* starts with 7, a sex of 3
Fault(s, f, i, c) == IF f THEN Subst(s, i, c) ELSE s

FaultInputs ==
  {Fault(Fault(Fault(BaseCard(st), f1, 2, "o"),
               f2, Len(Track1(st, City, <<"^">>, FullName, Address)) + 2, "7"),
         f3, Len(BaseCard(st)) - 50, "3") :
     st \in States, f1 \in BOOLEAN, f2 \in BOOLEAN, f3 \in BOOLEAN}

Inputs ==
  RawInputs \cup DlidInputs \cup NameInputs \cup MutatedInputs
    \cup OtherInputs \cup FaultInputs

SessionInputs ==
  {BaseCard(OH), BaseCard(CA),
   Card(OH, <<"^">>, FullName, ABCDE, <<"=">>, <<>>, Discretionary),
   Card(CA, <<"^">>, <<"D", "O", "E">>, OhioDlid, <<"=">>, <<>>,
        Rep(" ", 37)),
   <<"%", "O", "H">>, <<"X">>}

----------------------------------------------------------------------------
(* The state machine *)

\* the value of result before the call
NotCalled == Raise("NotCalled", "", <<>>)

\* License.from_string(s) is called and returns or raises
Returns(s, r) ==
  /\ input' = s
  /\ result' = r.ret
  /\ heap' = r.heap
  /\ returned' = Append(returned, [string |-> s, ret |-> r.ret])
  /\ UNCHANGED subclasses

Call(s) == Returns(s, from_string(subclasses, s, heap))

\* one call, on a string drawn from Inputs
Init ==
  /\ input \in Inputs
  /\ result = NotCalled
  /\ heap = <<>>
  /\ returned = <<>>
  /\ subclasses = License_subclasses

Decode == result = NotCalled /\ Call(input)

Next == Decode

Spec == Init /\ [][Next]_vars

\* a session: up to MaxCalls calls in a row, in one process
SessionInit ==
  /\ input = <<>>
  /\ result = NotCalled
  /\ heap = <<>>
  /\ returned = <<>>
  /\ subclasses = License_subclasses

DecodeNext == \E s \in SessionInputs : Len(returned) < MaxCalls /\ Call(s)

SessionNext == DecodeNext

SessionSpec == SessionInit /\ [][SessionNext]_vars

----------------------------------------------------------------------------
(* The vocabulary of the claims *)

\* the exception classes the specification names
FormatError == "ParseError"

NotSupportedError == "NotImplementedError"

Called == result # NotCalled

Succeeded == Called /\ result.exc = ""

\* the field mapping of the record returned
Values == heap[result.values]

CountOf(s, c) == Cardinality({i \in 1..Len(s) : s[i] = c})

StartsWithPercent == input # <<>> /\ input[1] = "%"

\* the position of the k-th c of s (0 for k = 0)
PosOf(s, c, k) ==
  IF k = 0 THEN 0
  ELSE CHOOSE i \in 1..Len(s) :
         s[i] = c /\ CountOf(SubSeq(s, 1, i), c) = k

\* the k-th '?'-terminated segment of the input
Segment(k) ==
  SubSeq(input, PosOf(input, "?", k - 1) + 1, PosOf(input, "?", k))

HasThreeSegments == StartsWithPercent /\ CountOf(input, "?") >= 3

Grammar(k) ==
  IF k = 1 THEN _track1_std ELSE IF k = 2 THEN _track2_std ELSE _track3_std

\* the match of the grammar of track k against the k-th segment
Satisfied(k) == match(Grammar(k), Segment(k))

\* the k-th segment satisfies the grammar of track k
Satisfies(k) == Satisfied(k).ok

\* what the grammar of track k captures
Captured(k) == Satisfied(k).groups

GrammarsSatisfied ==
  HasThreeSegments /\ Satisfies(1) /\ Satisfies(2) /\ Satisfies(3)

\* the number of parts of a name: one more than the '$' left once the
\* trailing ones are stripped
HasThreeParts(name) == CountOf(rstrip(name, "$"), "$") = 2

\* well-formed: the tracks satisfy their grammars and the name has its
\* three parts
WellFormed == GrammarsSatisfied /\ HasThreeParts(Captured(1)["name"])

StageOf(k) == IF k = 1 THEN "track 1" ELSE IF k = 2 THEN "track 2" ELSE "track 3"

----------------------------------------------------------------------------
(* Claims *)

\* C1: an input that does not start with '%' makes decode fail with a
\* NotSupportedError.
C1_NonPercentNotSupported ==
  (Called /\ ~StartsWithPercent) => result.exc = NotSupportedError

\* C2: an input that starts with '%' and holds fewer than three '?' makes
\* decode fail with a FormatError raised where the tracks are split, with
\* the input as its argument, whatever the state the input names.
C2_SplitFormatError ==
  (Called /\ StartsWithPercent /\ CountOf(input, "?") < 3)
    => /\ result.exc = FormatError
       /\ result.stage = "split"
       /\ result.arg = input

C2_Witness ==
  /\ Called
  /\ Len(input) > Len(Track3Fixed)
  /\ SubSeq(input, 1, 3) = <<"%">> \o OH
  /\ CountOf(input, "?") = 2
  /\ result.exc = FormatError
  /\ result.stage = "split"

\* the first track that fails its grammar (4 if none does), ok1..ok3 telling
\* which tracks satisfy theirs
FirstFailing(ok1, ok2, ok3) ==
  IF ~ok1 THEN 1 ELSE IF ~ok2 THEN 2 ELSE IF ~ok3 THEN 3 ELSE 4

ReportedAt(k) ==
  /\ result.exc = FormatError
  /\ result.stage = StageOf(k)
  /\ result.arg = Segment(k)

FirstFailingReported(ok1, ok2, ok3) ==
  /\ FirstFailing(ok1, ok2, ok3) <= 3 => ReportedAt(FirstFailing(ok1, ok2, ok3))
  /\ (ok1 /\ (Len(Segment(2)) < 2 \/ Segment(2)[2] # "6")) => ReportedAt(2)

\* C3: when an input that starts with '%' splits into three tracks and some
\* track fails its grammar, decode fails with a FormatError that names the
\* first failing track, in the order 1, 2, 3, and carries that track as it
\* was read; a track 2 whose issuer number does not start with 6, after a
\* good track 1, is reported as track 2.
C3_FirstFailingTrack ==
  (Called /\ HasThreeSegments)
    => FirstFailingReported(Satisfies(1), Satisfies(2), Satisfies(3))

C3_Witness ==
  /\ Called
  /\ HasThreeSegments
  /\ Satisfies(1)
  /\ Len(Segment(2)) > 2
  /\ Segment(2)[2] = "7"
  /\ match(_track2_std, Subst(Segment(2), 2, "6")).ok
  /\ ~Satisfies(3)
  /\ ReportedAt(2)

\* C4: a track-1 name that does not split into three parts on '$', once
\* its trailing '$' are stripped, makes decode fail with a FormatError.
C4_NamePartsFormatError ==
  (Called /\ GrammarsSatisfied /\ ~HasThreeParts(Captured(1)["name"]))
    => result.exc = FormatError

\* the state, the name and the dlid as the grammars capture them
RawState == Captured(1)["state"]

RawName == Captured(1)["name"]

RawDlid == Captured(2)["dlid"]

Alphabet ==
  <<"A", "B", "C", "D", "E", "F", "G", "H", "I", "J", "K", "L", "M",
    "N", "O", "P", "Q", "R", "S", "T", "U", "V", "W", "X", "Y", "Z">>

\* the number the two digits of d from position i on write
Ordinal(d, i) == 10 * DigitVal(d[i]) + DigitVal(d[i + 1])

\* d begins with two 2-digit ordinals, each in 01..26
TwoOrdinals(d) ==
  /\ Len(d) >= 4
  /\ \A i \in 1..4 : d[i] \in Digit
  /\ Ordinal(d, 1) \in 1..Len(Alphabet)
  /\ Ordinal(d, 3) \in 1..Len(Alphabet)

\* m1..m3 being the matches of the three tracks: a well-formed Ohio string
\* with two ordinals decodes to the record whose dlid starts with their letters
OhioLetters(m1, m2, m3) ==
  (/\ m1.ok /\ m2.ok /\ m3.ok
   /\ HasThreeParts(m1.groups["name"])
   /\ m1.groups["state"] = OH
   /\ TwoOrdinals(m2.groups["dlid"]))
    => /\ Succeeded
       /\ Values["dlid"] =
            <<Alphabet[Ordinal(m2.groups["dlid"], 1)],
              Alphabet[Ordinal(m2.groups["dlid"], 3)]>>
              \o SubSeq(m2.groups["dlid"], 5, Len(m2.groups["dlid"]))
       /\ result.attrs["dlid"] = Values["dlid"]

\* C5: for a well-formed Ohio string whose track-2 dlid begins with two
\* 2-digit ordinals in 01..26, the dlid of the record is the two letters of
\* those ordinals followed by the raw dlid from its fifth character on.
C5_OhioLetters ==
  (Called /\ HasThreeSegments)
    => OhioLetters(Satisfied(1), Satisfied(2), Satisfied(3))

C5_Witness ==
  /\ Succeeded
  /\ WellFormed
  /\ RawState = OH
  /\ RawDlid = OhioDlid
  /\ Values["dlid"] = <<"A", "B">> \o ABCDE

\* the name without its trailing '$', and its k-th '$'-separated part
Stripped(name) == rstrip(name, "$")

Part(name, k) ==
  SubSeq(Stripped(name) \o <<"$">>,
         PosOf(Stripped(name) \o <<"$">>, "$", k - 1) + 1,
         PosOf(Stripped(name) \o <<"$">>, "$", k) - 1)

\* C6: for a string whose tracks satisfy their grammars and whose name is
\* L$F$M followed by any number of '$', decode succeeds, the record has
\* last_name L, first_name F and middle_name M, and has no field `name'.
C6_NameSplit ==
  (Called /\ GrammarsSatisfied /\ HasThreeParts(RawName))
    => /\ Succeeded
       /\ Values["last_name"] = Part(RawName, 1)
       /\ Values["first_name"] = Part(RawName, 2)
       /\ Values["middle_name"] = Part(RawName, 3)
       /\ "name" \notin DOMAIN Values

\* the fields the three grammars capture
CapturedFields ==
  DOMAIN Captured(1) \cup DOMAIN Captured(2) \cup DOMAIN Captured(3)

NameFields == {"first_name", "middle_name", "last_name"}

\* field f of the record is what the grammars captured, cap
Verbatim(cap, f) ==
  /\ Values[f] = cap[f]
  /\ result.attrs[f] = cap[f]

\* the record against cap, the fields the three grammars captured
OtherFieldsVerbatim(cap) ==
  /\ DOMAIN Values = (DOMAIN cap \ {"name"}) \cup NameFields
  /\ DOMAIN result.attrs = DOMAIN Values
  /\ \A f \in DOMAIN cap \ {"name"} :
       (f = "dlid" /\ cap["state"] = OH) \/ Verbatim(cap, f)
  /\ cap["state"] # OH => result.cls = "License" /\ Verbatim(cap, "dlid")
  /\ Verbatim(cap, "discretionary")

\* m1..m3 being the matches of the three tracks
AllVerbatim(m1, m2, m3) ==
  /\ m1.ok /\ m2.ok /\ m3.ok
  /\ OtherFieldsVerbatim(m1.groups @@ m2.groups @@ m3.groups)

\* C7: a successful decode leaves every field but the name, and the dlid of
\* an Ohio string, as its grammar captured it: a state that has no variant
\* keeps its dlid, and the discretionary field is always verbatim.
C7_OtherFieldsVerbatim ==
  Succeeded
    => /\ HasThreeSegments
       /\ AllVerbatim(Satisfied(1), Satisfied(2), Satisfied(3))

C7_Witness ==
  /\ Succeeded
  /\ RawState = CA
  /\ TwoOrdinals(RawDlid)
  /\ Values["dlid"] = RawDlid
  /\ Values["discretionary"] = Discretionary
  /\ Values["city"] = City

\* C8: every call ends in exactly one of a fully populated record, a
\* FormatError, or a NotSupportedError.
C8_ThreeOutcomes ==
  Called
    => /\ result.exc \in {"", FormatError, NotSupportedError}
       /\ result.exc = ""
            => DOMAIN result.attrs = (CapturedFields \ {"name"}) \cup NameFields

\* C10: the dlid of a record decoded from an Ohio string begins with two
\* upper-case letters.
C10_OhioDlidLetters ==
  (Succeeded /\ RawState = OH)
    => /\ Len(Values["dlid"]) >= 2
       /\ Values["dlid"][1] \in Upper
       /\ Values["dlid"][2] \in Upper

\* the field mapping, in heap h, of the record the i-th call returned
ValuesOf(h, i) == h[returned[i].ret.values]

IsRecord(i) == returned[i].ret.exc = ""

\* the calls made so far keep what they returned, their field mappings
\* included
EarlierRecordsKept ==
  \A i \in 1..Len(returned) :
    /\ returned'[i] = returned[i]
    /\ IsRecord(i) => ValuesOf(heap', i) = ValuesOf(heap, i)

\* after the step, two records decoded from the same string are equal
\* field by field
SameStringSameRecord ==
  \A i, j \in 1..Len(returned') :
    (/\ returned'[i].string = returned'[j].string
     /\ returned'[i].ret.exc = ""
     /\ returned'[j].ret.exc = "")
      => /\ heap'[returned'[i].ret.values] = heap'[returned'[j].ret.values]
         /\ returned'[i].ret.attrs = returned'[j].ret.attrs
         /\ returned'[i].ret.cls = returned'[j].ret.cls

\* C9: whatever calls come before or between them, two decodes of the same
\* valid string return records with equal field mappings, and no call
\* changes the registry of variants or a record an earlier call returned.
C9_Idempotent ==
  [][/\ subclasses' = subclasses
     /\ EarlierRecordsKept
     /\ SameStringSameRecord]_vars

C9_Witness ==
  /\ Len(returned) = 3
  /\ returned[1].string = returned[3].string
  /\ returned[2].string # returned[1].string
  /\ IsRecord(1)
  /\ IsRecord(3)
  /\ ~IsRecord(2)
  /\ returned[1].ret.values # returned[3].ret.values
  /\ ValuesOf(heap, 1) = ValuesOf(heap, 3)

====
